---- MODULE Spec2Model ----
(***************************************************************************)
(* j2534-rs: the ownership chain Interface -> Device -> Channel over the   *)
(* native PassThru driver (src/src/lib.rs), the calls it makes into the    *)
(* driver, and the results it hands back to its caller.                    *)
(*                                                                         *)
(* The driver is the environment: every value it returns (module handle,   *)
(* status, output id, version buffers) is an input drawn with \E.          *)
(***************************************************************************)
EXTENDS Integers, Sequences, FiniteSets, TLC

VARIABLES
    interfaces,   \* the Interface values the caller has created, in creation order
    devices,      \* the Device values
    channels,     \* the Channel values
    log,          \* the calls the driver has observed, oldest first: entry point,
                  \* module handle, id passed, status and output id returned
    call,         \* the last call in full, with its other arguments and outputs
    ret,          \* the last operation, its arguments and the Result it returned
    scan          \* highest 0-based index CStr::from_ptr read in a version buffer, -1 before any

vars == <<interfaces, devices, channels, log, call, ret, scan>>

----------------------------------------------------------------------------
(* Bounds of the model *)

\* calls into the driver other than the release calls of drop
MaxCalls == 4
\* length of the text the driver writes to a version buffer
MaxText == 2
\* child keys under the PassThruSupport.04.04 registry key
MaxKeys == 2

----------------------------------------------------------------------------
(* Values *)

\* a null pointer, as j2534_load returns on failure (lib.rs:134)
NULL == 0

\* the non-null module handles j2534_load can return
Handles == {1, 2}

\* identifiers the driver can write to its device_id / channel_id output
DeviceIds == 1 .. MaxCalls
ChannelIds == 1 .. MaxCalls

\* driver status codes: 0 is success
Statuses == {0, 8}

\* a C string pointer handed to the driver, and the null pointer of open_any
CStringPtr(s) == <<"ptr", s>>
NullPtr == <<"null">>

Ports == {"COM2"}
Paths == {"C:\\j2534_driver.dll"}

\* the id field of a call whose entry point takes no device or channel id
NoId == 0 - 1

----------------------------------------------------------------------------
(* Error, ErrorKind: lib.rs:16-46 *)

NotFound == [kind |-> "NotFound", code |-> 0]
Utf8 == [kind |-> "Utf8", code |-> 0]
Code(c) == [kind |-> "Code", code |-> c]

Error_from_code(code) == Code(code)

\* Result<T>
Ok(v) == [res |-> "Ok", val |-> v, err |-> [kind |-> "None", code |-> 0]]
Err(e) == [res |-> "Err", val |-> <<>>, err |-> e]
NoResult == [res |-> "None", val |-> <<>>, err |-> [kind |-> "None", code |-> 0]]

\* what the caller holds after calling op with args
Returned(op, args, r) ==
    [op |-> op, args |-> args, res |-> r.res, val |-> r.val, err |-> r.err]

----------------------------------------------------------------------------
(* The driver's view: one record per call of an extern entry point *)

\* obj is the value the call was made for: the index of the Interface, Device or
\* Channel whose method or drop made it (0 for j2534_load)
Call(fn, handle, id, status, out, obj) ==
    [fn |-> fn, handle |-> handle, id |-> id, status |-> status, out |-> out, obj |-> obj]

\* the call with the arguments and output buffers the log leaves out
FullCall(c, args, bufs) ==
    [fn |-> c.fn, handle |-> c.handle, id |-> c.id, status |-> c.status, out |-> c.out,
     obj |-> c.obj, args |-> args, bufs |-> bufs]

\* the driver observes the call c made with args, which filled bufs
Observe(c, args, bufs) ==
    /\ log' = Append(log, c)
    /\ call' = FullCall(c, args, bufs)

Last(s) == s[Len(s)]

\* the calls the drop implementations make
ReleaseFns == {"j2534_close", "PassThruClose", "PassThruDisconnect"}

\* the number of calls made so far by operations other than drop
CallsMade == Cardinality({k \in 1 .. Len(log) : log[k].fn \notin ReleaseFns})

LiveInterfaces == {i \in 1 .. Len(interfaces) : interfaces[i].live}
LiveDevices == {d \in 1 .. Len(devices) : devices[d].live}
LiveChannels == {c \in 1 .. Len(channels) : channels[c].live}

----------------------------------------------------------------------------
(* Protocol, ConnectFlags: lib.rs:191-212 *)

Protocol ==
    [J1850VPW |-> 1, J1850PWM |-> 2, ISO9141 |-> 3, ISO14230 |-> 4, CAN |-> 5,
     ISO15765 |-> 6, SCI_A_ENGINE |-> 7, SCI_A_TRANS |-> 8, SCI_B_ENGINE |-> 9,
     SCI_B_TRANS |-> 10]

ProtocolNames == DOMAIN Protocol

\* `protocol as u32` (lib.rs:235)
Protocol_as_u32_shifted(p) == Protocol[p] - 1

Protocol_as_u32(p) == Protocol[p]

\* 0x100, 0x200, 0x800, 0x1000
ConnectFlagBits ==
    [NONE |-> 0, CAN_29_BIT_ID |-> 256, ISO9141_NO_CHECKSUM |-> 512,
     CAN_ID_BOTH |-> 2048, ISO9141_K_LINE_ONLY |-> 4096]

FlagNames == DOMAIN ConnectFlagBits

\* bitwise OR of two naturals
RECURSIVE BitOr(_, _)
BitOr(a, b) ==
    IF a = 0 THEN b
    ELSE IF b = 0 THEN a
    ELSE (IF a % 2 = 1 \/ b % 2 = 1 THEN 1 ELSE 0) + 2 * BitOr(a \div 2, b \div 2)

\* a ConnectFlags value built from the constants in the set f with `|`
RECURSIVE OrAll(_)
OrAll(f) ==
    IF f = {} THEN 0
    ELSE LET x == CHOOSE x \in f : TRUE
         IN BitOr(ConnectFlagBits[x], OrAll(f \ {x}))

\* `flags.bits()` (lib.rs:235)
ConnectFlags_bits_first(f) ==
    IF f = {} THEN 0 ELSE ConnectFlagBits[CHOOSE x \in f : TRUE]

ConnectFlags_bits(f) == OrAll(f)

----------------------------------------------------------------------------
(* Borrows: Device<'a> holds &'a Interface, Channel<'a> holds &'a Device<'a> *)
(* (lib.rs:108-117). A value cannot be dropped while a live value borrows it. *)

InterfaceBorrowed_unchecked(i) == FALSE

InterfaceBorrowed(i) == \E d \in LiveDevices : devices[d].interface = i

DeviceBorrowed_unchecked(d) == FALSE

DeviceBorrowed(d) == \E c \in LiveChannels : channels[c].device = d

\* handles of the modules currently loaded
LoadedHandles == {interfaces[i].handle : i \in LiveInterfaces}

----------------------------------------------------------------------------
(* impl Interface: lib.rs:119-189 *)

new_result_unchecked(handle) == Ok(<<"Interface", handle>>)

new_result(handle) ==
    IF handle = NULL THEN Err(NotFound) ELSE Ok(<<"Interface", handle>>)

\* Interface::new(path); handle is what j2534_load returns
Interface_new(path, handle) ==
    /\ handle \in (Handles \ LoadedHandles) \cup {NULL}
    /\ CallsMade < MaxCalls
    /\ Observe(Call("j2534_load", NULL, NoId, 0, handle, 0), <<CStringPtr(path)>>, <<>>)
    /\ ret' = Returned("new", <<path>>, new_result(handle))
    /\ interfaces' = IF new_result(handle).res = "Ok"
                        THEN Append(interfaces, [handle |-> handle, live |-> TRUE])
                        ELSE interfaces
    /\ UNCHANGED <<devices, channels, scan>>

open_result_unchecked(self, res, id) == Ok(<<"Device", self, id>>)

open_result_noid(self, res, id) ==
    IF res # 0 THEN Err(Error_from_code(res)) ELSE Ok(<<"Device", self, 0>>)

open_result(self, res, id) ==
    IF res # 0 THEN Err(Error_from_code(res)) ELSE Ok(<<"Device", self, id>>)

\* the body shared by open and open_any: raw is the port pointer passed
PassThruOpen(op, args, self, raw, res, id) ==
    /\ self \in LiveInterfaces
    /\ CallsMade < MaxCalls
    /\ Observe(Call("PassThruOpen", interfaces[self].handle, NoId, res, id, self), <<raw>>, <<>>)
    /\ ret' = Returned(op, args, open_result(self, res, id))
    /\ devices' = IF open_result(self, res, id).res = "Ok"
                     THEN Append(devices, [interface |-> self,
                                           id |-> open_result(self, res, id).val[3],
                                           live |-> TRUE])
                     ELSE devices
    /\ UNCHANGED <<interfaces, channels, scan>>

\* Interface::open(port); res and id are what j2534_PassThruOpen returns and writes
Interface_open(self, port, res, id) ==
    PassThruOpen("open", <<port>>, self, CStringPtr(port), res, id)

\* Interface::open_any()
Interface_open_any(self, res, id) ==
    PassThruOpen("open_any", <<>>, self, NullPtr, res, id)

Interface_drop_leak(self) ==
    /\ self \in LiveInterfaces
    /\ ~InterfaceBorrowed(self)
    /\ interfaces' = [interfaces EXCEPT ![self].live = FALSE]
    /\ ret' = Returned("drop", <<>>, NoResult)
    /\ UNCHANGED <<devices, channels, log, call, scan>>

\* impl Drop for Interface
Interface_drop(self) ==
    /\ self \in LiveInterfaces
    /\ ~InterfaceBorrowed(self)
    /\ Observe(Call("j2534_close", interfaces[self].handle, NoId, 0, 0, self), <<>>, <<>>)
    /\ interfaces' = [interfaces EXCEPT ![self].live = FALSE]
    /\ ret' = Returned("drop", <<>>, NoResult)
    /\ UNCHANGED <<devices, channels, scan>>

----------------------------------------------------------------------------
(* impl Device: lib.rs:221-260 *)

connect_raw_result_stale(self, res, id) ==
    IF res # 0 THEN Err(Error_from_code(res))
    ELSE Ok(<<"Channel", self, IF channels = <<>> THEN id ELSE Last(channels).id>>)

connect_raw_result(self, res, id) ==
    IF res # 0 THEN Err(Error_from_code(res)) ELSE Ok(<<"Channel", self, id>>)

connect_raw_args_swapped(protocol, flags, baudrate) == <<flags, protocol, baudrate>>

\* the protocol_id, flags, baudrate arguments of j2534_PassThruConnect (lib.rs:224)
connect_raw_args(protocol, flags, baudrate) == <<protocol, flags, baudrate>>

connect_raw(op, args, self, protocol, flags, baudrate, res, id) ==
    /\ self \in LiveDevices
    /\ CallsMade < MaxCalls
    /\ Observe(Call("PassThruConnect", interfaces[devices[self].interface].handle,
                    devices[self].id, res, id, self),
               connect_raw_args(protocol, flags, baudrate), <<>>)
    /\ ret' = Returned(op, args, connect_raw_result(self, res, id))
    /\ channels' = IF connect_raw_result(self, res, id).res = "Ok"
                      THEN Append(channels, [device |-> self,
                                             id |-> connect_raw_result(self, res, id).val[3],
                                             live |-> TRUE])
                      ELSE channels
    /\ UNCHANGED <<interfaces, devices, scan>>

\* Device::connect_raw(protocol, flags, baudrate)
Device_connect_raw(self, protocol, flags, baudrate, res, id) ==
    connect_raw("connect_raw", <<protocol, flags, baudrate>>, self, protocol, flags, baudrate,
                res, id)

\* Device::connect(protocol, flags, baudrate)
Device_connect(self, protocol, flags, baudrate, res, id) ==
    connect_raw("connect", <<protocol, flags, baudrate>>, self, Protocol_as_u32(protocol),
                ConnectFlags_bits(flags), baudrate, res, id)

----------------------------------------------------------------------------
(* Version buffers and their decoding: lib.rs:239-252 *)

\* [u8; 80]
VERSION_LEN == 80

\* bytes the driver writes as text: 'A', and 0xC3 0xA9 (the two bytes of U+00E9)
TextBytes == {65, 195, 169}

RECURSIVE Texts(_)
Texts(n) ==
    IF n = 0 THEN {<<>>}
    ELSE Texts(n - 1) \cup {Append(t, b) : t \in {u \in Texts(n - 1) : Len(u) = n - 1}, b \in TextBytes}

\* a buffer initialised to [0; 80] into which the driver wrote w from its start
Written(w) == [i \in 1 .. VERSION_LEN |-> IF i <= Len(w) THEN w[i] ELSE 0]

\* text, its terminator and then zeros; text, its terminator and then a stale 'B';
\* or all 80 bytes set to 'A' with no terminator
Terminated(t) == Written(t)
StaleAfterNul(t) == Written(t \o <<0, 66>>)
Unterminated == [i \in 1 .. VERSION_LEN |-> 65]

Buffers ==
    {Terminated(t) : t \in Texts(MaxText)}
    \cup {StaleAfterNul(t) : t \in Texts(1)}
    \cup {Unterminated}

\* what a failing driver call leaves in a buffer
FailBuffers == {Written(<<>>), Unterminated}

\* the memory that follows a buffer, as far as it is mapped: << >> is unmapped
Beyond == {<<>>, <<0>>, <<255, 0>>}

HasNul(buf) == \E i \in 1 .. Len(buf) : buf[i] = 0

\* 1-based position of the first NUL of mem, 0 when it has none
RECURSIVE FirstNul(_, _)
FirstNul(mem, i) ==
    IF i > Len(mem) THEN 0
    ELSE IF mem[i] = 0 THEN i
    ELSE FirstNul(mem, i + 1)

\* the bytes of buf before its first NUL
TextOf(buf) == SubSeq(buf, 1, FirstNul(buf, 1) - 1)

\* ffi::CStr::from_ptr(buf.as_mut_ptr()): scans from the pointer to the first NUL,
\* with no length; `last` is the 0-based index of the last byte it read. A buffer
\* with no NUL makes the scan run into the memory beyond it, which is undefined:
\* it yields the buffer followed by what lies beyond up to a NUL, or it faults
CStr_from_ptr(buf, beyond) ==
    LET mem == buf \o beyond
        n == FirstNul(mem, 1)
    IN  IF n = 0 THEN [fault |-> TRUE, bytes |-> <<>>, last |-> Len(mem)]
        ELSE [fault |-> FALSE, bytes |-> SubSeq(mem, 1, n - 1), last |-> n - 1]

IsCont(b, lo, hi) == lo <= b /\ b <= hi

\* str::from_utf8 on s from position i
RECURSIVE Utf8From(_, _)
Utf8From(s, i) ==
    IF i > Len(s) THEN TRUE
    ELSE LET b == s[i]
             has(k) == i + k <= Len(s)
         IN  IF b < 128 THEN Utf8From(s, i + 1)
             ELSE IF 194 <= b /\ b <= 223
                  THEN has(1) /\ IsCont(s[i + 1], 128, 191) /\ Utf8From(s, i + 2)
             ELSE IF 224 <= b /\ b <= 239
                  THEN /\ has(2)
                       /\ IsCont(s[i + 1], IF b = 224 THEN 160 ELSE 128,
                                           IF b = 237 THEN 159 ELSE 191)
                       /\ IsCont(s[i + 2], 128, 191)
                       /\ Utf8From(s, i + 3)
             ELSE IF 240 <= b /\ b <= 244
                  THEN /\ has(3)
                       /\ IsCont(s[i + 1], IF b = 240 THEN 144 ELSE 128,
                                           IF b = 244 THEN 143 ELSE 191)
                       /\ IsCont(s[i + 2], 128, 191)
                       /\ IsCont(s[i + 3], 128, 191)
                       /\ Utf8From(s, i + 4)
             ELSE FALSE

\* CStr::to_str
to_str(bytes) == IF Utf8From(bytes, 1) THEN Ok(bytes) ELSE Err(Utf8)

Fault == [res |-> "Fault", val |-> <<>>, err |-> [kind |-> "None", code |-> 0]]

Max(a, b) == IF a >= b THEN a ELSE b

VersionInfo_swapped(fw, dll, api) ==
    [firmware_version |-> fw, dll_version |-> api, api_version |-> dll]

\* the struct literal of lib.rs:247-251
VersionInfo(fw, dll, api) ==
    [firmware_version |-> fw, dll_version |-> dll, api_version |-> api]

\* the value read_version returns and the highest buffer index its conversions
\* read; the fields are evaluated in the order firmware, api, dll, each with `?`
read_version_result(res, fw, dll, api, beyond) ==
    IF res # 0 THEN [r |-> Err(Error_from_code(res)), last |-> 0 - 1]
    ELSE
    LET c1 == CStr_from_ptr(fw, beyond)
        s1 == to_str(c1.bytes)
        c2 == CStr_from_ptr(api, beyond)
        s2 == to_str(c2.bytes)
        c3 == CStr_from_ptr(dll, beyond)
        s3 == to_str(c3.bytes)
    IN  IF c1.fault THEN [r |-> Fault, last |-> c1.last]
        ELSE IF s1.res = "Err" THEN [r |-> s1, last |-> c1.last]
        ELSE IF c2.fault THEN [r |-> Fault, last |-> Max(c1.last, c2.last)]
        ELSE IF s2.res = "Err" THEN [r |-> s2, last |-> Max(c1.last, c2.last)]
        ELSE IF c3.fault THEN [r |-> Fault, last |-> Max(Max(c1.last, c2.last), c3.last)]
        ELSE IF s3.res = "Err" THEN [r |-> s3, last |-> Max(Max(c1.last, c2.last), c3.last)]
        ELSE [r |-> Ok(VersionInfo(s1.val, s3.val, s2.val)),
              last |-> Max(Max(c1.last, c2.last), c3.last)]

\* Device::read_version(); res is the status of j2534_PassThruReadVersion, and
\* fw, dll, api the contents of the three buffers when it returns
Device_read_version(self, res, fw, dll, api, beyond) ==
    /\ self \in LiveDevices
    /\ CallsMade < MaxCalls
    /\ Observe(Call("PassThruReadVersion", interfaces[devices[self].interface].handle,
                    devices[self].id, res, 0, self),
               <<>>, <<fw, dll, api>>)
    /\ ret' = Returned("read_version", <<>>, read_version_result(res, fw, dll, api, beyond).r)
    /\ scan' = read_version_result(res, fw, dll, api, beyond).last
    /\ UNCHANGED <<interfaces, devices, channels>>

Device_drop_siblings(self, res) ==
    /\ self \in LiveDevices
    /\ ~DeviceBorrowed(self)
    /\ Observe(Call("PassThruClose", interfaces[devices[self].interface].handle,
                    devices[self].id, res, 0, self),
               <<>>, <<>>)
    /\ devices' = [d \in 1 .. Len(devices) |->
                      IF devices[d].interface = devices[self].interface /\ ~DeviceBorrowed(d)
                      THEN [devices[d] EXCEPT !.live = FALSE]
                      ELSE devices[d]]
    /\ ret' = Returned("drop", <<>>, NoResult)
    /\ UNCHANGED <<interfaces, channels, scan>>

\* impl Drop for Device; res is the status j2534_PassThruClose returns
Device_drop(self, res) ==
    /\ self \in LiveDevices
    /\ ~DeviceBorrowed(self)
    /\ Observe(Call("PassThruClose", interfaces[devices[self].interface].handle,
                    devices[self].id, res, 0, self),
               <<>>, <<>>)
    /\ devices' = [devices EXCEPT ![self].live = FALSE]
    /\ ret' = Returned("drop", <<>>, NoResult)
    /\ UNCHANGED <<interfaces, channels, scan>>

----------------------------------------------------------------------------
(* impl Drop for Channel: lib.rs:266-270 *)

Channel_drop_leak(self, res) ==
    /\ self \in LiveChannels
    /\ channels' = [channels EXCEPT ![self].live = FALSE]
    /\ ret' = Returned("drop", <<>>, NoResult)
    /\ UNCHANGED <<interfaces, devices, log, call, scan>>

Channel_drop_stops(self, res) ==
    /\ self \in LiveChannels
    /\ \A k \in 1 .. Len(log) : ~(log[k].fn = "PassThruDisconnect" /\ log[k].obj = self)
    /\ Observe(Call("PassThruDisconnect",
                    interfaces[devices[channels[self].device].interface].handle,
                    channels[self].id, res, 0, self),
               <<>>, <<>>)
    /\ channels' = [channels EXCEPT ![self].live = (res # 0)]
    /\ ret' = Returned("drop", <<>>, NoResult)
    /\ UNCHANGED <<interfaces, devices, scan>>

\* res is the status j2534_PassThruDisconnect returns

Channel_drop(self, res) ==
    /\ self \in LiveChannels
    /\ Observe(Call("PassThruDisconnect",
                    interfaces[devices[channels[self].device].interface].handle,
                    channels[self].id, res, 0, self),
               <<>>, <<>>)
    /\ channels' = [channels EXCEPT ![self].live = FALSE]
    /\ ret' = Returned("drop", <<>>, NoResult)
    /\ UNCHANGED <<interfaces, devices, scan>>

----------------------------------------------------------------------------
Init ==
    /\ interfaces = <<>>
    /\ devices = <<>>
    /\ channels = <<>>
    /\ log = <<>>
    /\ call = FullCall(Call("none", NULL, NoId, 0, 0, 0), <<>>, <<>>)
    /\ ret = Returned("none", <<>>, NoResult)
    /\ scan = -1

----------------------------------------------------------------------------
(* The caller: any program that uses the API, one operation per step *)

Bauds == {500000}

\* the driver numbers what it has open: on success it assigns the lowest id not
\* in use, and on failure it leaves the caller's initial 0 untouched
Lowest(ids) == {x \in ids : \A y \in ids : x <= y}
AssignedIds(res, ids, used) == IF res = 0 THEN Lowest(ids \ used) ELSE {0}

DeviceIdsInUse == {devices[d].id : d \in LiveDevices}
ChannelIdsInUse == {channels[c].id : c \in LiveChannels}

\* j2534_load returns NULL or the lowest handle that is not loaded
LoadResults == {NULL} \cup Lowest(Handles \ LoadedHandles)

New == \E path \in Paths, handle \in LoadResults : Interface_new(path, handle)

Open ==
    \E self \in LiveInterfaces, port \in Ports, res \in Statuses :
        \E id \in AssignedIds(res, DeviceIds, DeviceIdsInUse) : Interface_open(self, port, res, id)

OpenAny ==
    \E self \in LiveInterfaces, res \in Statuses :
        \E id \in AssignedIds(res, DeviceIds, DeviceIdsInUse) : Interface_open_any(self, res, id)

DropInterface == \E self \in LiveInterfaces : Interface_drop(self)

ConnectRaw ==
    \E self \in LiveDevices, baudrate \in Bauds, res \in Statuses :
        \E id \in AssignedIds(res, ChannelIds, ChannelIdsInUse) :
            Device_connect_raw(self, Protocol.CAN, ConnectFlagBits.NONE, baudrate, res, id)

Connect ==
    \E self \in LiveDevices, baudrate \in Bauds, res \in Statuses :
        \E id \in AssignedIds(res, ChannelIds, ChannelIdsInUse) :
            Device_connect(self, "ISO15765", {"CAN_29_BIT_ID"}, baudrate, res, id)

ReadVersion ==
    \E self \in LiveDevices, res \in Statuses :
        Device_read_version(self, res, Terminated(<<65>>), Terminated(<<65, 65>>),
                            Terminated(<<195, 169>>), <<0>>)

DropDevice == \E self \in LiveDevices, res \in Statuses : Device_drop(self, res)

DropChannel == \E self \in LiveChannels, res \in Statuses : Channel_drop(self, res)

Next ==
    \/ New
    \/ Open
    \/ OpenAny
    \/ DropInterface
    \/ ConnectRaw
    \/ Connect
    \/ ReadVersion
    \/ DropDevice
    \/ DropChannel

Spec == Init /\ [][Next]_vars

----------------------------------------------------------------------------
(* A caller that loads a module and opens devices, the driver free to return   *)
(* any status and any id *)

AllStatuses == {0, 8, 0 - 1}
AnyIds == {0, 1, 2}

InitOpen ==
    \E h \in Handles, path \in Paths :
        /\ interfaces = <<[handle |-> h, live |-> TRUE]>>
        /\ devices = <<>>
        /\ channels = <<>>
        /\ log = <<Call("j2534_load", NULL, NoId, 0, h, 0)>>
        /\ call = FullCall(Call("j2534_load", NULL, NoId, 0, h, 0), <<CStringPtr(path)>>, <<>>)
        /\ ret = Returned("new", <<path>>, new_result(h))
        /\ scan = 0 - 1

OpenFree ==
    \E self \in LiveInterfaces, port \in Ports, res \in AllStatuses, id \in AnyIds :
        Interface_open(self, port, res, id)

OpenAnyFree ==
    \E self \in LiveInterfaces, res \in AllStatuses, id \in AnyIds :
        Interface_open_any(self, res, id)

NextOpen == OpenFree \/ OpenAnyFree

SpecOpen == InitOpen /\ [][NextOpen]_vars

----------------------------------------------------------------------------
(* A caller that holds an open Device and calls connect, connect_raw or        *)
(* read_version on it once *)

InitDevice ==
    \E d \in {1, 2} :
        /\ interfaces = <<[handle |-> 1, live |-> TRUE]>>
        /\ devices = <<[interface |-> 1, id |-> d, live |-> TRUE]>>
        /\ channels = <<>>
        /\ log = <<Call("j2534_load", NULL, NoId, 0, 1, 0),
                   Call("PassThruOpen", 1, NoId, 0, d, 1)>>
        /\ call = FullCall(Call("PassThruOpen", 1, NoId, 0, d, 1), <<NullPtr>>, <<>>)
        /\ ret = Returned("open_any", <<>>, open_result(1, 0, d))
        /\ scan = 0 - 1

JustOpened == call.fn = "PassThruOpen"

RawProtocols == {0, 5, 6, 32768}
RawFlags == {0, 256, 2304, 2147483647}
AllBauds == {0, 500000}

ConnectRawFree ==
    /\ JustOpened
    /\ \E self \in LiveDevices, protocol \in RawProtocols, flags \in RawFlags,
          baudrate \in AllBauds, res \in AllStatuses, id \in AnyIds :
            Device_connect_raw(self, protocol, flags, baudrate, res, id)

ConnectFree ==
    /\ JustOpened
    /\ \E self \in LiveDevices, protocol \in ProtocolNames, flags \in SUBSET FlagNames,
          baudrate \in AllBauds, res \in {0, 8}, id \in {1, 2} :
            Device_connect(self, protocol, flags, baudrate, res, id)

NextConnect == ConnectRawFree \/ ConnectFree

SpecConnect == InitDevice /\ [][NextConnect]_vars

ReadVersionFree ==
    /\ JustOpened
    /\ \E self \in LiveDevices, res \in AllStatuses :
        \E fw, dll, api \in (IF res = 0 THEN Buffers ELSE FailBuffers) :
            \E beyond \in (IF res = 0 /\ ~(HasNul(fw) /\ HasNul(dll) /\ HasNul(api))
                           THEN Beyond ELSE {<<0>>}) :
                Device_read_version(self, res, fw, dll, api, beyond)

NextReadVersion == ReadVersionFree

SpecReadVersion == InitDevice /\ [][NextReadVersion]_vars

----------------------------------------------------------------------------
(* What the driver observed of each value *)

\* position in the log of the call fn made for value obj, 0 when there is none
Pos(fn, obj) ==
    IF \E k \in 1 .. Len(log) : log[k].fn = fn /\ log[k].obj = obj
    THEN CHOOSE k \in 1 .. Len(log) : log[k].fn = fn /\ log[k].obj = obj
    ELSE 0

\* the number of calls fn made for value obj
Count(fn, obj) == Cardinality({k \in 1 .. Len(log) : log[k].fn = fn /\ log[k].obj = obj})

HandleOf(i) == interfaces[i].handle
InterfaceOfDevice(d) == devices[d].interface
DeviceOfChannel(c) == channels[c].device

\* a < b, where 0 stands for a call that has not happened
Before(a, b) == b # 0 => (a # 0 /\ a < b)

----------------------------------------------------------------------------
(* C1: for every chain Interface -> Device -> Channel, whatever the order in    *)
(* which the caller drops its values, the driver sees PassThruDisconnect of the  *)
(* channel before PassThruClose of its device, and PassThruClose of the device   *)
(* before j2534_close of the module of its interface.                            *)
C1_ReleaseOrder ==
    /\ \A c \in 1 .. Len(channels) :
          Before(Pos("PassThruDisconnect", c), Pos("PassThruClose", DeviceOfChannel(c)))
    /\ \A d \in 1 .. Len(devices) :
          Before(Pos("PassThruClose", d), Pos("j2534_close", InterfaceOfDevice(d)))

\* a whole chain has been released
C1_Witness ==
    \E c \in 1 .. Len(channels) :
        /\ Pos("PassThruDisconnect", c) # 0
        /\ Pos("PassThruClose", DeviceOfChannel(c)) # 0
        /\ Pos("j2534_close", InterfaceOfDevice(DeviceOfChannel(c))) # 0

ReleasedOnce(fn, obj, live, handle, id) ==
    IF live THEN Count(fn, obj) = 0
    ELSE /\ Count(fn, obj) = 1
         /\ log[Pos(fn, obj)].handle = handle
         /\ log[Pos(fn, obj)].id = id

(* C2: every acquired resource is released exactly once: a live value has had   *)
(* no release call, a dropped value exactly one, carrying its own handle and    *)
(* id, and the driver sees no release call besides these.                       *)
C2_ReleasedExactlyOnce ==
    /\ \A i \in 1 .. Len(interfaces) :
          ReleasedOnce("j2534_close", i, interfaces[i].live, HandleOf(i), NoId)
    /\ \A d \in 1 .. Len(devices) :
          ReleasedOnce("PassThruClose", d, devices[d].live,
                       HandleOf(InterfaceOfDevice(d)), devices[d].id)
    /\ \A c \in 1 .. Len(channels) :
          ReleasedOnce("PassThruDisconnect", c, channels[c].live,
                       HandleOf(InterfaceOfDevice(DeviceOfChannel(c))), channels[c].id)
    /\ Cardinality({k \in 1 .. Len(log) : log[k].fn \in ReleaseFns})
         = (Len(interfaces) - Cardinality(LiveInterfaces))
           + (Len(devices) - Cardinality(LiveDevices))
           + (Len(channels) - Cardinality(LiveChannels))
    /\ Len(interfaces) = Cardinality({k \in 1 .. Len(log) :
                            log[k].fn = "j2534_load" /\ log[k].out # NULL})
    /\ Len(devices) = Cardinality({k \in 1 .. Len(log) :
                            log[k].fn = "PassThruOpen" /\ log[k].status = 0})
    /\ Len(channels) = Cardinality({k \in 1 .. Len(log) :
                            log[k].fn = "PassThruConnect" /\ log[k].status = 0})

\* the caller holds nothing any more, after a chain and a second device
C2_Witness ==
    /\ LiveInterfaces = {} /\ LiveDevices = {} /\ LiveChannels = {}
    /\ Len(channels) >= 1 /\ Len(devices) >= 2

\* the module handle h is loaded when call k is made
LoadedAt(h, k) ==
    \E j \in 1 .. (k - 1) :
        /\ log[j].fn = "j2534_load" /\ log[j].out = h
        /\ \A m \in (j + 1) .. (k - 1) : ~(log[m].fn = "j2534_close" /\ log[m].handle = h)

(* C3: no identifier reaches the driver outside its lifetime: a channel id is   *)
(* not passed after its Device was closed, a device id not after the module of  *)
(* its Interface was unloaded, and no entry point is called on a module handle  *)
(* that is not loaded.                                                          *)
C3_NoUseOutsideLifetime ==
    \A k \in 1 .. Len(log) :
        /\ log[k].fn # "j2534_load" => log[k].handle # NULL /\ LoadedAt(log[k].handle, k)
        /\ log[k].fn = "PassThruDisconnect" =>
              LET p == Pos("PassThruClose", DeviceOfChannel(log[k].obj))
              IN  p = 0 \/ k < p
        /\ log[k].fn \in {"PassThruConnect", "PassThruReadVersion", "PassThruClose"} =>
              LET p == Pos("j2534_close", InterfaceOfDevice(log[k].obj))
              IN  p = 0 \/ k < p

\* ids were passed to the driver and the whole chain has since been released
C3_Witness ==
    /\ \E k \in 1 .. Len(log) : log[k].fn = "PassThruReadVersion"
    /\ \E k \in 1 .. Len(log) : log[k].fn = "PassThruDisconnect"
    /\ \E k \in 1 .. Len(log) : log[k].fn = "j2534_close"

SuccessfulOpens ==
    Cardinality({k \in 1 .. Len(log) : log[k].fn = "PassThruOpen" /\ log[k].status = 0})

(* C4: open(port) and open_any(): when PassThruOpen returns status 0 the Device *)
(* returned carries the id the driver assigned; when it returns a nonzero       *)
(* status s no Device is produced and the error is Code(s).                     *)
C4_OpenResult ==
    /\ Len(devices) = SuccessfulOpens
    /\ ret.op \in {"open", "open_any"} =>
        /\ call.fn = "PassThruOpen"
        /\ call.args = IF ret.op = "open" THEN <<CStringPtr(ret.args[1])>> ELSE <<NullPtr>>
        /\ IF call.status = 0
           THEN /\ ret.res = "Ok"
                /\ ret.val = <<"Device", call.obj, call.out>>
                /\ Last(devices) = [interface |-> call.obj, id |-> call.out, live |-> TRUE]
           ELSE /\ ret.res = "Err"
                /\ ret.val = <<>>
                /\ ret.err = [kind |-> "Code", code |-> call.status]

\* open has succeeded with the id 2, and open_any has failed with the status -1
C4_Witness ==
    /\ \E d \in 1 .. Len(devices) : devices[d].id = 2
    /\ ret.op = "open_any" /\ ret.res = "Err" /\ ret.err.code = 0 - 1

SuccessfulConnects ==
    Cardinality({k \in 1 .. Len(log) : log[k].fn = "PassThruConnect" /\ log[k].status = 0})

ConnectOutcome ==
    /\ call.fn = "PassThruConnect"
    /\ call.id = devices[call.obj].id
    /\ call.handle = HandleOf(InterfaceOfDevice(call.obj))
    /\ IF call.status = 0
       THEN /\ ret.res = "Ok"
            /\ ret.val = <<"Channel", call.obj, call.out>>
            /\ Last(channels) = [device |-> call.obj, id |-> call.out, live |-> TRUE]
       ELSE /\ ret.res = "Err"
            /\ ret.val = <<>>
            /\ ret.err = [kind |-> "Code", code |-> call.status]

(* C5: connect_raw(protocol, flags, baudrate) passes the id of its Device and   *)
(* the three arguments unchanged to PassThruConnect; on status 0 it returns a   *)
(* Channel bound to the id the driver assigned and to that Device, on a nonzero *)
(* status s it returns Code(s) and no Channel.                                  *)
C5_ConnectRaw ==
    /\ Len(channels) = SuccessfulConnects
    /\ ret.op = "connect_raw" => (ConnectOutcome /\ call.args = ret.args)

\* connect_raw was called with three different arguments and got a channel
C5_Witness ==
    /\ ret.op = "connect_raw" /\ ret.res = "Ok"
    /\ ret.args = <<6, 2304, 500000>>
    /\ Last(channels).id = 2

ProtocolOrder ==
    <<"J1850VPW", "J1850PWM", "ISO9141", "ISO14230", "CAN", "ISO15765",
      "SCI_A_ENGINE", "SCI_A_TRANS", "SCI_B_ENGINE", "SCI_B_TRANS">>

ExpectedCode(p) == CHOOSE n \in 1 .. 10 : ProtocolOrder[n] = p

\* the selected bits are distinct, so their OR is their sum
ExpectedBits(f) ==
    (IF "CAN_29_BIT_ID" \in f THEN 256 ELSE 0)
    + (IF "ISO9141_NO_CHECKSUM" \in f THEN 512 ELSE 0)
    + (IF "CAN_ID_BOTH" \in f THEN 2048 ELSE 0)
    + (IF "ISO9141_K_LINE_ONLY" \in f THEN 4096 ELSE 0)

(* C6: connect(p, f, b) makes the driver call and returns the result of         *)
(* connect_raw(code(p), bits(f), b), where code numbers J1850VPW .. SCI_B_TRANS *)
(* 1 .. 10 and bits(f) is the OR of the bits 0x100, 0x200, 0x800, 0x1000 of the *)
(* flags selected (0 for NONE).                                                 *)
C6_ConnectIsConnectRaw ==
    ret.op = "connect" =>
        /\ ConnectOutcome
        /\ call.args = <<ExpectedCode(ret.args[1]), ExpectedBits(ret.args[2]), ret.args[3]>>

\* connect was called with SCI_B_TRANS and three flags, and the driver saw 10 and 0x1900
C6_Witness ==
    /\ ret.op = "connect"
    /\ ret.args[1] = "SCI_B_TRANS"
    /\ ret.args[2] = {"CAN_29_BIT_ID", "CAN_ID_BOTH", "ISO9141_K_LINE_ONLY"}
    /\ call.args = <<10, 6400, 500000>>

(* C7: no operation swallows a nonzero driver status: whenever a driver entry   *)
(* point, PassThruClose and PassThruDisconnect on release included, returns a   *)
(* nonzero status, the caller receives Code(status).                            *)
C7_NoStatusSwallowed ==
    (call.fn \in {"PassThruOpen", "PassThruConnect", "PassThruReadVersion",
                  "PassThruClose", "PassThruDisconnect"} /\ call.status # 0)
        => (ret.res = "Err" /\ ret.err = [kind |-> "Code", code |-> call.status])

ValidText(buf) == HasNul(buf) /\ Utf8From(TextOf(buf), 1)

(* C8: when PassThruReadVersion returns 0 and fills the three buffers with      *)
(* valid null-terminated text, read_version returns a VersionInfo whose         *)
(* firmware_version, dll_version and api_version are the text of the firmware,  *)
(* dll and api buffers, each up to its first null byte, no field swapped.       *)
C8_ReadVersionText ==
    (/\ ret.op = "read_version"
     /\ call.status = 0
     /\ \A n \in 1 .. 3 : ValidText(call.bufs[n]))
        => /\ ret.res = "Ok"
           /\ ret.val.firmware_version = TextOf(call.bufs[1])
           /\ ret.val.dll_version = TextOf(call.bufs[2])
           /\ ret.val.api_version = TextOf(call.bufs[3])

\* three different texts, one of two bytes and one followed by a stale byte
C8_Witness ==
    /\ ret.op = "read_version" /\ ret.res = "Ok"
    /\ call.bufs[1] = StaleAfterNul(<<65>>)
    /\ call.bufs[2] = Terminated(<<195, 169>>)
    /\ call.bufs[3] = Terminated(<<65, 65>>)
    /\ ret.val = [firmware_version |-> <<65>>, dll_version |-> <<195, 169>>,
                  api_version |-> <<65, 65>>]

InvalidText(buf) == HasNul(buf) /\ ~Utf8From(TextOf(buf), 1)

(* C9: read_version fails with Code(s) when the driver returns a nonzero status *)
(* s, decoding no buffer, and with a Utf8 error when the status is 0 and one of *)
(* the three buffers holds invalid text before its null terminator; in both     *)
(* cases it returns no VersionInfo.                                             *)
C9_ReadVersionErrors ==
    ret.op = "read_version" =>
        /\ call.status # 0 =>
              /\ ret.res = "Err" /\ ret.err = [kind |-> "Code", code |-> call.status]
              /\ ret.val = <<>>
              /\ scan = 0 - 1
        /\ (call.status = 0 /\ \E n \in 1 .. 3 : InvalidText(call.bufs[n])) =>
              /\ ret.res = "Err" /\ ret.err = [kind |-> "Utf8", code |-> 0]
              /\ ret.val = <<>>

(* C10: read_version checks that each 80-byte version buffer is terminated      *)
(* within its 80 bytes before it converts it: whatever the driver wrote, the    *)
(* conversion reads no index at or beyond 80.                                   *)
C10_NoReadBeyondBuffer == scan < VERSION_LEN

----------------------------------------------------------------------------
(* A caller that holds an open Device, connects with the same arguments again   *)
(* and again, and releases the Channels it got *)

Reconnect ==
    \E self \in LiveDevices, res \in AllStatuses, id \in AnyIds \ ChannelIdsInUse :
        Device_connect(self, "ISO15765", {"CAN_29_BIT_ID"}, 500000, res, id)

ReleaseChannel ==
    \E self \in LiveChannels, res \in Statuses : Channel_drop(self, res)

NextReconnect == Reconnect \/ ReleaseChannel

SpecReconnect == InitDevice /\ [][NextReconnect]_vars

\* the position in the log of the successful PassThruConnect that made channel c
ConnectPos(c) ==
    CHOOSE k \in 1 .. Len(log) :
        /\ log[k].fn = "PassThruConnect" /\ log[k].status = 0
        /\ Cardinality({j \in 1 .. k : log[j].fn = "PassThruConnect" /\ log[j].status = 0}) = c

(* C11: connect, release of the Channel and a second connect with the same      *)
(* arguments on the same Device give two independent Channels: each Channel     *)
(* carries the id its own PassThruConnect assigned, and when the first was      *)
(* released before the second connect the driver saw exactly one                *)
(* PassThruDisconnect for it, carrying the first id, between the two connects,  *)
(* and the second Channel is live until its own release, which carries the      *)
(* second id.                                                                   *)
C11_Reconnect ==
    \A c \in 1 .. Len(channels) :
        /\ channels[c].id = log[ConnectPos(c)].out
        /\ channels[c].device = log[ConnectPos(c)].obj
        /\ channels[c].live <=> Count("PassThruDisconnect", c) = 0
        /\ Pos("PassThruDisconnect", c) # 0 =>
              /\ Pos("PassThruDisconnect", c) > ConnectPos(c)
              /\ log[Pos("PassThruDisconnect", c)].id = log[ConnectPos(c)].out
        /\ (c > 1 /\ Pos("PassThruDisconnect", c - 1) \in ConnectPos(c - 1) .. ConnectPos(c)) =>
              /\ Count("PassThruDisconnect", c - 1) = 1
              /\ log[Pos("PassThruDisconnect", c - 1)].id = log[ConnectPos(c - 1)].out

C11_Witness ==
    /\ Len(channels) = 2
    /\ channels[1].device = channels[2].device
    /\ channels[1].id # channels[2].id
    /\ ~channels[1].live /\ channels[2].live
    /\ Pos("PassThruDisconnect", 1) \in ConnectPos(1) .. ConnectPos(2)
    /\ ret.op = "connect" /\ ret.res = "Ok" /\ ret.val = <<"Channel", 1, channels[2].id>>

----------------------------------------------------------------------------
\* the positions in the log of the j2534_load calls that returned a module
Loads == {k \in 1 .. Len(log) : log[k].fn = "j2534_load" /\ log[k].out # NULL}

(* C12: Interface::new either fails with NotFound, and then no Interface exists *)
(* for that load and no j2534_close is ever issued for it, or returns an        *)
(* Interface holding the non-null handle j2534_load returned; every Interface   *)
(* that exists holds a handle that is loaded and not yet unloaded.              *)
C12_InterfaceHoldsLiveHandle ==
    /\ Len(interfaces) = Cardinality(Loads)
    /\ \A i \in LiveInterfaces :
          /\ HandleOf(i) # NULL
          /\ LoadedAt(HandleOf(i), Len(log) + 1)
    /\ \A k \in 1 .. Len(log) :
          log[k].fn = "j2534_close" =>
              /\ log[k].handle # NULL
              /\ log[k].obj \in 1 .. Len(interfaces)
              /\ log[k].handle = HandleOf(log[k].obj)
              /\ LoadedAt(log[k].handle, k)
    /\ ret.op = "new" =>
          IF call.out = NULL
          THEN ret.res = "Err" /\ ret.err = NotFound
          ELSE /\ ret.res = "Ok" /\ ret.val = <<"Interface", call.out>>
               /\ Last(interfaces) = [handle |-> call.out, live |-> TRUE]

C12_Witness ==
    /\ \E k \in 1 .. Len(log) : log[k].fn = "j2534_load" /\ log[k].out = NULL
    /\ \E k \in 1 .. Len(log) : log[k].fn = "j2534_close"
    /\ LiveInterfaces # {}
    /\ ret.op = "new" /\ ret.res = "Err"

----------------------------------------------------------------------------
(* Registry scanner: lib.rs:273-307 *)

\* io::Error, by its kind
IoError(kind) == [kind |-> kind, code |-> 0]
IoErrorKinds == {"NotFound", "PermissionDenied"}

\* what get_value finds under a value name: a text, or no such value
ValueTexts == {"a", "b"}
ValueResults == {Ok(t) : t \in ValueTexts} \cup {Err(IoError("NotFound"))}

\* a child key: how enum_keys yields its name, how open_subkey opens it, and its values
ReadableKeys ==
    [enum : {"Ok"}, open : {"Ok"},
     Name : ValueResults, Vendor : ValueResults, FunctionLibrary : ValueResults]
UnreadableKeys ==
    [enum : IoErrorKinds, open : {"Ok"},
     Name : {Ok("a")}, Vendor : {Ok("a")}, FunctionLibrary : {Ok("b")}]
    \cup
    [enum : {"Ok"}, open : IoErrorKinds,
     Name : {Ok("a")}, Vendor : {Ok("a")}, FunctionLibrary : {Ok("b")}]
ChildKeys == ReadableKeys \cup UnreadableKeys

RECURSIVE KeySeqs(_)
KeySeqs(n) ==
    IF n = 0 THEN {<<>>}
    ELSE KeySeqs(n - 1) \cup {Append(ks, k) : ks \in {x \in KeySeqs(n - 1) : Len(x) = n - 1},
                                              k \in ChildKeys}

\* the store: how HKLM\SOFTWARE and its subkey PassThruSupport.04.04 open, and the child keys
Registries ==
    [software : IoErrorKinds, passthru : {"Ok"}, keys : {<<>>}]
    \cup [software : {"Ok"}, passthru : IoErrorKinds, keys : {<<>>}]
    \cup [software : {"Ok"}, passthru : {"Ok"}, keys : KeySeqs(MaxKeys)]

Listing_swapped(name, vendor, path) == [name |-> name, vendor |-> path, path |-> vendor]

\* struct Listing
Listing(name, vendor, path) == [name |-> name, vendor |-> vendor, path |-> path]

\* the body of the loop (lib.rs:295-304): the Listing of a child key, or the first error
list_key(key) ==
    IF key.enum # "Ok" THEN Err(IoError(key.enum))
    ELSE IF key.open # "Ok" THEN Err(IoError(key.open))
    ELSE IF key.Name.res = "Err" THEN Err(key.Name.err)
    ELSE IF key.Vendor.res = "Err" THEN Err(key.Vendor.err)
    ELSE IF key.FunctionLibrary.res = "Err" THEN Err(key.FunctionLibrary.err)
    ELSE Ok(Listing(key.Name.val, key.Vendor.val, key.FunctionLibrary.val))

RECURSIVE list_keys_skip(_, _)
list_keys_skip(keys, listings) ==
    IF keys = <<>> THEN Ok(listings)
    ELSE IF list_key(Head(keys)).res = "Err" THEN list_keys_skip(Tail(keys), listings)
    ELSE list_keys_skip(Tail(keys), Append(listings, list_key(Head(keys)).val))

\* the loop over enum_keys (lib.rs:294-305)
RECURSIVE list_keys(_, _)
list_keys(keys, listings) ==
    IF keys = <<>> THEN Ok(listings)
    ELSE IF list_key(Head(keys)).res = "Err" THEN Err(list_key(Head(keys)).err)
    ELSE list_keys(Tail(keys), Append(listings, list_key(Head(keys)).val))

list_passthru_err_empty(kind) == Ok(<<>>)

\* a failure to open PassThruSupport.04.04 (lib.rs:286-291)
list_passthru_err(kind) ==
    IF kind = "NotFound" THEN Ok(<<>>) ELSE Err(IoError(kind))

list_result(registry) ==
    IF registry.software # "Ok" THEN Err(IoError(registry.software))
    ELSE IF registry.passthru # "Ok" THEN list_passthru_err(registry.passthru)
    ELSE list_keys(registry.keys, <<>>)

\* list(): reads the store and touches nothing of the ownership chain
list(registry) ==
    /\ ret' = Returned("list", <<registry>>, list_result(registry))
    /\ UNCHANGED <<interfaces, devices, channels, log, call, scan>>

\* a caller that calls list() once
List ==
    /\ ret.op = "none"
    /\ \E registry \in Registries : list(registry)

NextList == List

SpecList == Init /\ [][NextList]_vars

\* the store list() was last called on
Store == ret.args[1]
Opened == ret.op = "list" /\ Store.software = "Ok"
HasAll(key) == key.Name.res = "Ok" /\ key.Vendor.res = "Ok" /\ key.FunctionLibrary.res = "Ok"
Readable(key) == key.enum = "Ok" /\ key.open = "Ok"

(* C13: list() returns the empty sequence and no error when the subkey          *)
(* PassThruSupport.04.04 is absent, and returns the error itself when the       *)
(* subkey fails to open for any other reason.                                   *)
C13_AbsentSubkey ==
    Opened =>
        /\ Store.passthru = "NotFound" => ret.res = "Ok" /\ ret.val = <<>>
        /\ Store.passthru \notin {"Ok", "NotFound"} =>
              ret.res = "Err" /\ ret.err = IoError(Store.passthru)

C13_Witness ==
    /\ Opened /\ Store.passthru = "NotFound"
    /\ ret.res = "Ok" /\ ret.val = <<>>

C15_NoPartialListing ==
    (/\ Opened /\ Store.passthru = "Ok"
     /\ \E k \in 1 .. Len(Store.keys) : ~HasAll(Store.keys[k]))
    => ret.res = "Err" /\ ret.val = <<>>

C15_Witness ==
    /\ Opened /\ Store.passthru = "Ok"
    /\ Len(Store.keys) = 2
    /\ Readable(Store.keys[1]) /\ HasAll(Store.keys[1])
    /\ Readable(Store.keys[2]) /\ ~HasAll(Store.keys[2])
    /\ ret.res = "Err" /\ ret.err = IoError("NotFound") /\ ret.val = <<>>

----------------------------------------------------------------------------
(* Error::kind, Error::as_str and Display for Error: lib.rs:28-46, 66-70 *)

\* Error::kind
Error_kind(e) == e

\* Error::as_str: one text for every Code, whatever the code
Error_as_str(e) ==
    CASE e.kind = "NotFound" -> "not found"
      [] e.kind = "Code" -> "unknown error"
      [] e.kind = "Utf8" -> "utf8 error"

\* Display for Error: the pieces written to the formatter
Error_fmt(e) == <<Error_as_str(e)>>

\* raw status codes, the extremes of i32 among them
ErrorCodes == ((0 - 64) .. 64) \cup {2147483647, 0 - 2147483647}

\* how a caller comes by each kind of Error
ErrorSources ==
    {<<"NotFound">>, <<"Utf8">>} \cup {<<"Code", c>> : c \in ErrorCodes}

ErrorOf(source) ==
    CASE source[1] = "NotFound" -> NotFound
      [] source[1] = "Utf8" -> Utf8
      [] source[1] = "Code" -> Error_from_code(source[2])

\* the caller takes the kind of an Error and prints it
Describe(source) ==
    /\ ret' = Returned("describe", source,
                       Ok([kind |-> Error_kind(ErrorOf(source)),
                           text |-> Error_fmt(ErrorOf(source))]))
    /\ UNCHANGED <<interfaces, devices, channels, log, call, scan>>

DescribeOnce ==
    /\ ret.op = "none"
    /\ \E source \in ErrorSources : Describe(source)

NextError == DescribeOnce

SpecError == Init /\ [][NextError]_vars

(* C16: Error::from_code(c).kind() is Code(c) with the raw value c, and an      *)
(* Error prints as "not found" for NotFound, as "utf8 error" for Utf8 and as    *)
(* "unknown error" followed by the raw code c for Code(c).                      *)
C16_Diagnostic ==
    ret.op = "describe" =>
        /\ ret.args[1] = "NotFound" =>
              ret.val.kind = NotFound /\ ret.val.text = <<"not found">>
        /\ ret.args[1] = "Utf8" =>
              ret.val.kind = Utf8 /\ ret.val.text = <<"utf8 error">>
        /\ ret.args[1] = "Code" =>
              /\ ret.val.kind = [kind |-> "Code", code |-> ret.args[2]]
              /\ ret.val.text = <<"unknown error", ret.args[2]>>

----------------------------------------------------------------------------
\* this step made exactly the call fn(handle, id) for value obj
Issued(fn, handle, id, obj) ==
    /\ Len(log') = Len(log) + 1
    /\ SubSeq(log', 1, Len(log)) = log
    /\ Last(log').fn = fn /\ Last(log').handle = handle
    /\ Last(log').id = id /\ Last(log').obj = obj

(* C17: sibling resources are independent: a step that releases a Device makes  *)
(* one call, PassThruClose with that Device's id, and a step that releases a    *)
(* Channel makes one call, PassThruDisconnect with that Channel's id; every     *)
(* other Device and Channel and every Interface is left as it was.              *)
C17_SiblingsIndependent ==
    [][/\ \A d \in LiveDevices :
            ~devices'[d].live =>
                /\ Issued("PassThruClose", HandleOf(InterfaceOfDevice(d)), devices[d].id, d)
                /\ devices' = [devices EXCEPT ![d].live = FALSE]
                /\ channels' = channels /\ interfaces' = interfaces
       /\ \A c \in LiveChannels :
            ~channels'[c].live =>
                /\ Issued("PassThruDisconnect",
                          HandleOf(InterfaceOfDevice(DeviceOfChannel(c))), channels[c].id, c)
                /\ channels' = [channels EXCEPT ![c].live = FALSE]
                /\ devices' = devices /\ interfaces' = interfaces]_vars

C17_Witness ==
    /\ ret.op = "drop" /\ call.fn = "PassThruClose"
    /\ \E d1, d2 \in 1 .. Len(devices) :
          /\ d1 # d2 /\ devices[d1].interface = devices[d2].interface
          /\ ~devices[d1].live /\ devices[d2].live
          /\ Count("PassThruClose", d2) = 0
          /\ \E c \in LiveChannels : channels[c].device = d2
          /\ interfaces[devices[d2].interface].live

----------------------------------------------------------------------------
\* the calls among the first k that returned id out for module handle, successfully
Acquired(fn, handle, out, k) ==
    {j \in 1 .. k : /\ log[j].fn = fn /\ log[j].status = 0
                    /\ log[j].handle = handle /\ log[j].out = out}

\* the calls among the first k that released id on module handle
Released(fn, handle, id, k) ==
    {j \in 1 .. k : log[j].fn = fn /\ log[j].handle = handle /\ log[j].id = id}

(* C19: every id passed to PassThruClose was returned before by a successful    *)
(* PassThruOpen on the same handle, and every id passed to PassThruDisconnect   *)
(* by a successful PassThruConnect on the same handle, once for each release;   *)
(* a failed open or connect is never followed by a close or disconnect for the  *)
(* output id it left unset.                                                     *)
C19_ReleasedIdsWereAcquired ==
    /\ \A k \in 1 .. Len(log) :
          /\ log[k].fn = "PassThruClose" =>
                Cardinality(Released("PassThruClose", log[k].handle, log[k].id, k))
                    <= Cardinality(Acquired("PassThruOpen", log[k].handle, log[k].id, k))
          /\ log[k].fn = "PassThruDisconnect" =>
                Cardinality(Released("PassThruDisconnect", log[k].handle, log[k].id, k))
                    <= Cardinality(Acquired("PassThruConnect", log[k].handle, log[k].id, k))
    /\ Cardinality({k \in 1 .. Len(log) : log[k].fn = "PassThruClose"})
          <= Cardinality({k \in 1 .. Len(log) : log[k].fn = "PassThruOpen" /\ log[k].status = 0})
    /\ Cardinality({k \in 1 .. Len(log) : log[k].fn = "PassThruDisconnect"})
          <= Cardinality({k \in 1 .. Len(log) : log[k].fn = "PassThruConnect" /\ log[k].status = 0})

C19_Witness ==
    /\ \E k \in 1 .. Len(log) : log[k].fn = "PassThruOpen" /\ log[k].status # 0
    /\ \E k \in 1 .. Len(log) : log[k].fn = "PassThruConnect" /\ log[k].status # 0
    /\ \E k \in 1 .. Len(log) : log[k].fn = "PassThruClose"
    /\ LiveDevices = {} /\ LiveInterfaces = {}

----------------------------------------------------------------------------
(* The caller's scopes end: a value that nothing borrows is dropped sooner or   *)
(* later, whether the function that held it returned normally or with `?`       *)

\* read_version returning early: the driver reports a failure
ReadVersionFails ==
    \E self \in LiveDevices, res \in Statuses \ {0} :
        Device_read_version(self, res, Terminated(<<65>>), Terminated(<<65, 65>>),
                            Terminated(<<195, 169>>), <<0>>)

NextExit ==
    \/ New
    \/ Open
    \/ OpenAny
    \/ ConnectRaw
    \/ Connect
    \/ ReadVersionFails
    \/ DropChannel
    \/ DropDevice
    \/ DropInterface

FairSpec ==
    /\ Init /\ [][NextExit]_vars
    /\ WF_log(DropChannel) /\ WF_log(DropDevice) /\ WF_log(DropInterface)

\* every value acquired so far has been released by one call of its release function
AllReleased ==
    /\ \A i \in 1 .. Len(interfaces) : Count("j2534_close", i) = 1
    /\ \A d \in 1 .. Len(devices) : Count("PassThruClose", d) = 1
    /\ \A c \in 1 .. Len(channels) : Count("PassThruDisconnect", c) = 1

\* an operation has just returned an error to the caller
Failed == ret.res = "Err"

(* C18: on every exit path, the early return after a failed new, open, connect  *)
(* or read_version included, every resource acquired so far is eventually       *)
(* released: after any failure, and from any state, a state is reached where    *)
(* every Channel, Device and Interface acquired has had its PassThruDisconnect, *)
(* PassThruClose or j2534_close issued exactly once.                            *)
C18_ReleasedOnEveryExit ==
    /\ Failed ~> AllReleased
    /\ []<>AllReleased

C18_Witness ==
    /\ AllReleased
    /\ Len(devices) = 1 /\ Len(interfaces) = 1 /\ Len(channels) = 0
    /\ \E k \in 1 .. Len(log) :
          /\ log[k].fn = "PassThruConnect" /\ log[k].status # 0
          /\ k < Pos("PassThruClose", 1)
    /\ Pos("PassThruClose", 1) < Pos("j2534_close", 1)

----------------------------------------------------------------------------
\* the driver has just answered a release call with a nonzero status
ReleaseFailed == call.fn \in {"PassThruDisconnect", "PassThruClose"} /\ call.status # 0

\* every value acquired has been released once, children before their parents
ChainReleasedInOrder ==
    /\ AllReleased
    /\ \A c \in 1 .. Len(channels) :
          Pos("PassThruDisconnect", c) < Pos("PassThruClose", DeviceOfChannel(c))
    /\ \A d \in 1 .. Len(devices) :
          Pos("PassThruClose", d) < Pos("j2534_close", InterfaceOfDevice(d))

(* C20: a nonzero status from PassThruDisconnect or PassThruClose during        *)
(* release does not stop the rest of the release chain: the parent Device is    *)
(* still closed and the module still unloaded, each exactly once, in the order  *)
(* disconnect, close, unload that holds when every release succeeds.            *)
C20_FailedReleaseGoesOn == ReleaseFailed ~> ChainReleasedInOrder

C20_Witness ==
    /\ ChainReleasedInOrder
    /\ Len(channels) >= 1
    /\ log[Pos("PassThruDisconnect", 1)].status # 0
    /\ log[Pos("PassThruClose", DeviceOfChannel(1))].status # 0
    /\ LiveInterfaces = {}

====
